---- MODULE Spec2Model ----
(***************************************************************************)
(* Contract Finder agent (src/app.py): the module-level credential check,  *)
(* the two graph nodes (gather_contract_details, search_contracts), the    *)
(* routing function route_to_search and the interactive loop               *)
(* run_contract_finder.                                                    *)
(*                                                                         *)
(* Python values are tagged records: None, str, int, list and dict.  A     *)
(* Python str is a TLA+ string; Len, \o and SubSeq act on its characters.  *)
(***************************************************************************)
EXTENDS Integers, Sequences, FiniteSets, TLC

VARIABLES
    pc,               \* position of the process
    TAVILY_API_KEY,   \* os.getenv("TAVILY_API_KEY") after load_dotenv()
    GROQ_API_KEY,     \* os.getenv("GROQ_API_KEY") after load_dotenv()
    graph_built,      \* contract_finder_graph has been compiled
    initial_state,    \* the dict run_contract_finder keeps across turns
    user_input,       \* the line read by input() in the current iteration
    gstate,           \* the state held by the graph during one stream() pass
    node,             \* the node the graph runs next in the current pass
    event,            \* the event stream() has yielded to the loop body
    search_response,  \* outcome of the last search_tool.invoke call
    queries,          \* the queries passed to search_tool.invoke so far
    printed,          \* everything written to the console so far
    raised,           \* the exception that ended the process or the loop
    called,           \* function applied by the last direct call
    ret,              \* value that call returned
    response,         \* s.py: what requests.get(url) returned
    scraped_file,     \* s.py: content of scraped_content.txt, None while it does not exist
    fetches,          \* s.py: number of requests.get calls made
    writes            \* s.py: number of times scraped_content.txt was opened for writing

\* the variables of the scraper script, which no step of app.py touches
scraper_vars == <<response, scraped_file, fetches, writes>>

vars == <<pc, TAVILY_API_KEY, GROQ_API_KEY, graph_built, initial_state,
          user_input, gstate, node, event, search_response, queries,
          printed, raised, called, ret, scraper_vars>>

----------------------------------------------------------------------------
(* Python values *)

None == [type |-> "NoneType"]

PyStr(s) == [type |-> "str", v |-> s]

PyInt(n) == [type |-> "int", v |-> n]

PyList(xs) == [type |-> "list", v |-> xs]

PyDict(d) == [type |-> "dict", v |-> d]

\* bool(v): None, "", 0, [] and {} are falsy
Truthy(v) ==
    CASE v.type = "NoneType" -> FALSE
      [] v.type = "str"      -> v.v # ""
      [] v.type = "int"      -> v.v # 0
      [] v.type = "list"     -> v.v # <<>>
      [] v.type = "dict"     -> DOMAIN v.v # {}

\* d.get(k, default) on a mapping: the default is used only when the key is absent
DictGet(d, k, default) == IF k \in DOMAIN d THEN d[k] ELSE default

RECURSIVE NatToStr(_)
\* str(n) for a natural number
NatToStr(n) ==
    IF n < 10 THEN SubSeq("0123456789", n + 1, n + 1)
    ELSE NatToStr(n \div 10) \o SubSeq("0123456789", (n % 10) + 1, (n % 10) + 1)

\* what an f-string replacement field {v} inserts: format(v, "")
Format(v) ==
    CASE v.type = "str"      -> v.v
      [] v.type = "NoneType" -> "None"
      [] v.type = "int"      -> IF v.v < 0 THEN "-" \o NatToStr(0 - v.v) ELSE NatToStr(v.v)

----------------------------------------------------------------------------
(* str methods *)

UpperLetters == "ABCDEFGHIJKLMNOPQRSTUVWXYZ"

LowerLetters == "abcdefghijklmnopqrstuvwxyz"

Whitespace == {" ", "\t", "\n", "\r"}

CharAt(s, i) == SubSeq(s, i, i)

LowerChar(c) ==
    IF \E i \in 1..26 : CharAt(UpperLetters, i) = c
    THEN CharAt(LowerLetters, CHOOSE i \in 1..26 : CharAt(UpperLetters, i) = c)
    ELSE c

RECURSIVE Lower(_)
\* s.lower()
Lower(s) == IF s = "" THEN "" ELSE LowerChar(CharAt(s, 1)) \o Lower(Tail(s))

\* index of the first occurrence of sub in s, 0 when there is none
Find(s, sub) ==
    LET hits == {i \in 1..(Len(s) - Len(sub) + 1) : SubSeq(s, i, i + Len(sub) - 1) = sub}
    IN  IF hits = {} THEN 0 ELSE CHOOSE i \in hits : \A j \in hits : i <= j

\* sub in s
Contains(s, sub) == Find(s, sub) # 0

RECURSIVE Split(_, _)
\* s.split(sep): the pieces between the occurrences of sep, scanned left to right
Split(s, sep) ==
    LET i == Find(s, sep)
    IN  IF i = 0 THEN <<s>>
        ELSE <<SubSeq(s, 1, i - 1)>> \o Split(SubSeq(s, i + Len(sep), Len(s)), sep)

\* xs[-1]
Last(xs) == xs[Len(xs)]

RECURSIVE LStrip(_)
LStrip(s) == IF s # "" /\ CharAt(s, 1) \in Whitespace THEN LStrip(Tail(s)) ELSE s

RECURSIVE RStrip(_)
RStrip(s) ==
    IF s # "" /\ CharAt(s, Len(s)) \in Whitespace THEN RStrip(SubSeq(s, 1, Len(s) - 1)) ELSE s

\* s.strip()
Strip(s) == RStrip(LStrip(s))

\* s[:n]
Prefix(s, n) == SubSeq(s, 1, IF Len(s) < n THEN Len(s) ELSE n)

RECURSIVE Join(_, _)
\* sep.join(parts)
Join(sep, parts) ==
    IF parts = <<>> THEN ""
    ELSE IF Len(parts) = 1 THEN parts[1]
    ELSE parts[1] \o sep \o Join(sep, Tail(parts))

----------------------------------------------------------------------------
(* Messages and exceptions *)

HumanMessage(text) == [type |-> "HumanMessage", content |-> text]

AIMessage(text) == [type |-> "AIMessage", content |-> text]

\* the reducer of ContractState.messages: an update is appended to the channel
add_messages(left, right) == left \o right

NoException == [type |-> "NoException", msg |-> ""]

Exception(t, m) == [type |-> t, msg |-> m]

----------------------------------------------------------------------------
(* Fixed texts *)

ClarificationPrompt ==
    "I'll help you find contract opportunities. "
    \o "Could you please provide more details:\n"
    \o "1. What industry are you looking for contracts in? (e.g., IT, Construction, Marketing)\n"
    \o "2. What type of contract are you seeking? (e.g., Full-time, Part-time, Project-based)\n"
    \o "3. In which location are you looking for contracts?\n"
    \o "4. Do you have a specific budget range in mind?"

Acknowledgment == "Great! I'll search for contract opportunities based on your details."

Apology ==
    "I'm sorry, but I couldn't find any contract opportunities matching your criteria. "
    \o "Would you like to modify your search parameters?"

FoundHeader == "I've found some contract opportunities matching your criteria:\n\n"

Farewell == "Goodbye! Hope you found some great contract opportunities."

Welcome == <<"Welcome to the Contract Finder Agent!",
             "I'll help you find the best contract opportunities.">>

TavilyMissing == "TAVILY_API_KEY is not set in the .env file"

GroqMissing == "GROQ_API_KEY is not set in the .env file"

DefaultTitle == "Untitled Contract Opportunity"

DefaultUrl == "No URL available"

DefaultContent == "No description available"

\* the slice bound of result['content'][:200]
SnippetLen == 200

----------------------------------------------------------------------------
(* The graph nodes and the routing function *)

\* all([state.get('industry'), state.get('contract_type'), state.get('location')])
AllDetails(state) ==
    /\ Truthy(DictGet(state, "industry", None))
    /\ Truthy(DictGet(state, "contract_type", None))
    /\ Truthy(DictGet(state, "location", None))

\* mutant: the budget range is required as well
gather_contract_details_budget(state) ==
    IF ~(AllDetails(state) /\ Truthy(DictGet(state, "budget_range", None)))
    THEN [messages |-> <<AIMessage(ClarificationPrompt)>>]
    ELSE [messages |-> <<AIMessage(Acknowledgment)>>]

gather_contract_details(state) ==
    IF ~AllDetails(state)
    THEN [messages |-> <<AIMessage(ClarificationPrompt)>>]
    ELSE [messages |-> <<AIMessage(Acknowledgment)>>]

\* mutant: the author of the last message is not looked at
route_to_search_any_author(state) ==
    IF ~AllDetails(state) THEN "input_gathering" ELSE "contract_search"

route_to_search(state) ==
    LET messages == DictGet(state, "messages", <<>>)
    IN  IF /\ messages # <<>>
           /\ Last(messages).type = "HumanMessage"
           /\ ~AllDetails(state)
        THEN "input_gathering"
        ELSE "contract_search"

\* the f-string of safe_search_contracts
search_query(state) ==
    "Latest " \o Format(DictGet(state, "contract_type", PyStr("")))
    \o " contract opportunities in " \o Format(DictGet(state, "industry", PyStr("")))
    \o " industry located in " \o Format(DictGet(state, "location", PyStr("")))
    \o " with budget range " \o Format(DictGet(state, "budget_range", PyStr("any")))

\* mutant: the content falls back to the URL
processed_result_shared(result) ==
    [title   |-> DictGet(result.v, "title", PyStr(DefaultTitle)),
     url     |-> DictGet(result.v, "url", PyStr(DefaultUrl)),
     content |-> DictGet(result.v, "content", DictGet(result.v, "url", PyStr(DefaultUrl)))]

\* one pass of the body of "for result in search_results"
processed_result(result) ==
    [title   |-> DictGet(result.v, "title", PyStr(DefaultTitle)),
     url     |-> DictGet(result.v, "url", PyStr(DefaultUrl)),
     content |-> DictGet(result.v, "content", PyStr(DefaultContent))]

\* iter(v): the items a for loop draws from v, or the TypeError it raises
Iterate(v) ==
    CASE v.type = "list" -> [exc |-> NoException, items |-> v.v]
      [] v.type = "str"  -> [exc |-> NoException,
                             items |-> [i \in 1..Len(v.v) |-> PyStr(CharAt(v.v, i))]]
      [] v.type = "dict" -> [exc |-> NoException,
                             items |-> IF DOMAIN v.v = {} THEN <<>>
                                       ELSE <<PyStr(CHOOSE k \in DOMAIN v.v : TRUE)>>]
      [] OTHER -> [exc |-> Exception("TypeError", "'" \o v.type \o "' object is not iterable"),
                   items |-> <<>>]

\* safe_search_contracts(state) when search_tool.invoke ends with outcome:
\* the list returned and the line printed by the except clause, if any
safe_search_contracts(state, outcome) ==
    IF outcome.exc # NoException
    THEN [results |-> <<>>, printed |-> <<"Error in contract search: " \o outcome.exc.msg>>]
    ELSE LET it == Iterate(outcome.value)
             bad == {i \in 1..Len(it.items) : it.items[i].type # "dict"}
         IN  IF it.exc # NoException
             THEN [results |-> <<>>,
                   printed |-> <<"Error in contract search: " \o it.exc.msg>>]
             ELSE IF bad # {}
             THEN LET i == CHOOSE i \in bad : \A j \in bad : i <= j
                  IN  [results |-> <<>>,
                       printed |-> <<"Error in contract search: '" \o it.items[i].type
                                     \o "' object has no attribute 'get'">>]
             ELSE [results |-> [i \in 1..Len(it.items) |-> processed_result(it.items[i])],
                   printed |-> <<>>]

\* v[:200] can be evaluated: of the values a result field takes here (str, int,
\* None) only a str supports slicing
Sliceable(v) == v.type = "str"

\* mutant: the ellipsis marks a truncation only
result_entry_if_cut(i, result) ==
    NatToStr(i) \o ". " \o Format(result.title) \o "\n"
    \o "   URL: " \o Format(result.url) \o "\n"
    \o "   Description: " \o Prefix(result.content.v, SnippetLen)
    \o (IF Len(result.content.v) > SnippetLen THEN "..." ELSE "")

\* one element of the list comprehension of search_contracts
result_entry(i, result) ==
    NatToStr(i) \o ". " \o Format(result.title) \o "\n"
    \o "   URL: " \o Format(result.url) \o "\n"
    \o "   Description: " \o Prefix(result.content.v, SnippetLen) \o "..."

\* search_contracts(state) when search_tool.invoke ends with outcome: the
\* update returned, or the exception raised, and the lines printed on the way
search_contracts(state, outcome) ==
    LET safe == safe_search_contracts(state, outcome)
        search_results == safe.results
        bad == {i \in 1..Len(search_results) : ~Sliceable(search_results[i].content)}
    IN  IF search_results = <<>>
        THEN [exc |-> NoException, printed |-> safe.printed,
              update |-> [messages |-> <<AIMessage(Apology)>>]]
        ELSE IF bad # {}
        THEN LET i == CHOOSE i \in bad : \A j \in bad : i <= j
             IN  [exc |-> Exception("TypeError", "'" \o search_results[i].content.type
                                                 \o "' object is not subscriptable"),
                  printed |-> safe.printed,
                  update |-> [messages |-> <<>>]]
        ELSE LET results_text ==
                     Join("\n\n", [i \in 1..Len(search_results) |->
                                      result_entry(i, search_results[i])])
             IN  [exc |-> NoException, printed |-> safe.printed,
                  update |-> [messages |-> <<AIMessage(FoundHeader \o results_text)>>]]

----------------------------------------------------------------------------
(* Bounds and input domains *)

\* non-exit turns of one session
MaxTurns == 2

\* values of an environment variable: absent, empty, present
EnvValues == {None, PyStr(""), PyStr("key")}

\* lines typed by the user
ExitInputs == {"quit", "QUIT", "q", "Exit"}

TurnInputs == {"hello", "industry", "industry IT", "INDUSTRY tech budget 5k",
               "contract type Full-time location Austin"}

\* a raw result with the keys of subset present
RawResult(subset, title, url, content) ==
    PyDict([k \in subset |-> CASE k = "title" -> title
                               [] k = "url" -> url
                               [] k = "content" -> content])

ResultKeys == {"title", "url", "content"}

GoodResult == RawResult(ResultKeys, PyStr("Job A"), PyStr("http://a"), PyStr("Build a site"))

Returned(v) == [exc |-> NoException, value |-> v]

\* outcomes of search_tool.invoke during a session
SessionOutcomes ==
    {[exc |-> Exception("TimeoutError", "timed out"), value |-> None],
     Returned(PyList(<<GoodResult>>)),
     Returned(PyList(<<RawResult(ResultKeys, PyStr("Job A"), PyStr("http://a"), None)>>)),
     Returned(PyList(<<RawResult(ResultKeys, PyInt(7), PyStr("http://a"), PyStr("Build"))>>)),
     Returned(PyStr("error"))}

----------------------------------------------------------------------------
(* The process: module import, then run_contract_finder *)

\* s.py before line 6: no response yet
NoResponse == [status_code |-> 0, content |-> ""]

NoEvent == [key |-> "", value |-> [messages |-> <<>>]]

NoState == [messages |-> <<>>, industry |-> None, contract_type |-> None,
            location |-> None, budget_range |-> None]

Init ==
    /\ pc = "import"
    /\ TAVILY_API_KEY \in EnvValues
    /\ GROQ_API_KEY \in EnvValues
    /\ graph_built = FALSE
    /\ initial_state = NoState
    /\ user_input = ""
    /\ gstate = NoState
    /\ node = ""
    /\ event = NoEvent
    /\ search_response = Returned(None)
    /\ queries = <<>>
    /\ printed = <<>>
    /\ raised = NoException
    /\ called = ""
    /\ ret = None
    /\ response = NoResponse
    /\ scraped_file = None
    /\ fetches = 0
    /\ writes = 0

\* mutant: only an absent variable is refused
CheckCredentials_is_none ==
    /\ pc = "import"
    /\ IF TAVILY_API_KEY = None
       THEN pc' = "aborted" /\ raised' = Exception("ValueError", TavilyMissing)
       ELSE IF GROQ_API_KEY = None
       THEN pc' = "aborted" /\ raised' = Exception("ValueError", GroqMissing)
       ELSE pc' = "build" /\ raised' = raised
    /\ UNCHANGED <<TAVILY_API_KEY, GROQ_API_KEY, graph_built, initial_state, user_input,
                   gstate, node, event, search_response, queries, printed, called, ret>>
    /\ UNCHANGED scraper_vars

\* lines 16-23: the credential check
CheckCredentials ==
    /\ pc = "import"
    /\ IF ~Truthy(TAVILY_API_KEY)
       THEN pc' = "aborted" /\ raised' = Exception("ValueError", TavilyMissing)
       ELSE IF ~Truthy(GROQ_API_KEY)
       THEN pc' = "aborted" /\ raised' = Exception("ValueError", GroqMissing)
       ELSE pc' = "build" /\ raised' = raised
    /\ UNCHANGED <<TAVILY_API_KEY, GROQ_API_KEY, graph_built, initial_state, user_input,
                   gstate, node, event, search_response, queries, printed, called, ret>>
    /\ UNCHANGED scraper_vars

\* lines 34-159: clients, nodes, edges, compile
BuildGraph ==
    /\ pc = "build"
    /\ graph_built' = TRUE
    /\ pc' = "main"
    /\ UNCHANGED <<TAVILY_API_KEY, GROQ_API_KEY, initial_state, user_input, gstate, node,
                   event, search_response, queries, printed, raised, called, ret>>
    /\ UNCHANGED scraper_vars

\* lines 162-173: the banner and the fresh state
StartLoop ==
    /\ pc = "main"
    /\ printed' = printed \o Welcome
    /\ initial_state' = [messages |-> <<>>, industry |-> None, contract_type |-> None,
                         location |-> None, budget_range |-> None]
    /\ pc' = "input"
    /\ UNCHANGED <<TAVILY_API_KEY, GROQ_API_KEY, graph_built, user_input, gstate, node,
                   event, search_response, queries, raised, called, ret>>
    /\ UNCHANGED scraper_vars

\* mutant: the comparison is case-sensitive
IsExitCommand_exact(line) == line \in {"quit", "exit", "q"}

\* line 180: user_input.lower() in ["quit", "exit", "q"]
IsExitCommand(line) == Lower(line) \in {"quit", "exit", "q"}

\* lines 177-182: an exit keyword ends the loop
Quit(line) ==
    /\ pc = "input"
    /\ IsExitCommand(line)
    /\ user_input' = line
    /\ printed' = Append(printed, Farewell)
    /\ pc' = "terminated"
    /\ UNCHANGED <<TAVILY_API_KEY, GROQ_API_KEY, graph_built, initial_state, gstate, node,
                   event, search_response, queries, raised, called, ret>>
    /\ UNCHANGED scraper_vars

\* mutant: the except clause neither prints nor leaves the loop
InputFails_continue ==
    /\ pc = "input"
    /\ raised' = Exception("EOFError", "EOF when reading a line")
    /\ UNCHANGED <<pc, printed>>
    /\ UNCHANGED <<TAVILY_API_KEY, GROQ_API_KEY, graph_built, initial_state, user_input,
                   gstate, node, event, search_response, queries, called, ret>>
    /\ UNCHANGED scraper_vars

\* lines 177, 207-209: input() raises EOFError at end of input
InputFails ==
    /\ pc = "input"
    /\ raised' = Exception("EOFError", "EOF when reading a line")
    /\ printed' = Append(printed, "An error occurred: " \o raised'.msg)
    /\ pc' = "terminated"
    /\ UNCHANGED <<TAVILY_API_KEY, GROQ_API_KEY, graph_built, initial_state, user_input,
                   gstate, node, event, search_response, queries, called, ret>>
    /\ UNCHANGED scraper_vars

\* mutant: the message list is rebuilt from the new message alone
Turn_reset(line) ==
    /\ pc = "input"
    /\ ~IsExitCommand(line)
    /\ Len(initial_state.messages) < MaxTurns
    /\ user_input' = line
    /\ initial_state' = [initial_state EXCEPT !.messages = <<HumanMessage(line)>>]
    /\ gstate' = [initial_state' EXCEPT !.messages = add_messages(<<>>, initial_state'.messages)]
    /\ node' = "input_gathering"
    /\ pc' = "stream"
    /\ UNCHANGED <<TAVILY_API_KEY, GROQ_API_KEY, graph_built, event, search_response,
                   queries, printed, raised, called, ret>>
    /\ UNCHANGED scraper_vars

\* lines 177-188: the message is appended and stream() takes the state as input
Turn(line) ==
    /\ pc = "input"
    /\ ~IsExitCommand(line)
    /\ Len(initial_state.messages) < MaxTurns
    /\ user_input' = line
    /\ initial_state' = [initial_state EXCEPT !.messages = Append(@, HumanMessage(line))]
    /\ gstate' = [initial_state' EXCEPT !.messages = add_messages(<<>>, initial_state'.messages)]
    /\ node' = "input_gathering"
    /\ pc' = "stream"
    /\ UNCHANGED <<TAVILY_API_KEY, GROQ_API_KEY, graph_built, event, search_response,
                   queries, printed, raised, called, ret>>
    /\ UNCHANGED scraper_vars

\* lines 134, 150-154: the gathering node, its update and the conditional edge
RunGather ==
    /\ pc = "stream"
    /\ node = "input_gathering"
    /\ LET update == gather_contract_details(gstate)
       IN  /\ gstate' = [gstate EXCEPT !.messages = add_messages(@, update.messages)]
           /\ event' = [key |-> "input_gathering", value |-> update]
    /\ node' = route_to_search(gstate')
    /\ pc' = "event"
    /\ UNCHANGED <<TAVILY_API_KEY, GROQ_API_KEY, graph_built, initial_state, user_input,
                   search_response, queries, printed, raised, called, ret>>
    /\ UNCHANGED scraper_vars

\* mutant: the search node reads the four fields from the dict the loop mutates
RunSearch_shared ==
    /\ pc = "stream"
    /\ node = "contract_search"
    /\ \E outcome \in SessionOutcomes :
          LET shared == [f \in DOMAIN gstate |->
                            IF f = "messages" THEN gstate[f] ELSE initial_state[f]]
              r == search_contracts(shared, outcome)
          IN  /\ search_response' = outcome
              /\ queries' = Append(queries, search_query(shared))
              /\ IF r.exc # NoException
                 THEN /\ raised' = r.exc
                      /\ printed' = (printed \o r.printed)
                                    \o <<"An error occurred: " \o r.exc.msg>>
                      /\ pc' = "terminated"
                      /\ UNCHANGED <<gstate, event, node>>
                 ELSE /\ gstate' = [gstate EXCEPT
                                       !.messages = add_messages(@, r.update.messages)]
                      /\ event' = [key |-> "contract_search", value |-> r.update]
                      /\ printed' = printed \o r.printed
                      /\ node' = "END"
                      /\ pc' = "event"
                      /\ UNCHANGED raised
    /\ UNCHANGED <<TAVILY_API_KEY, GROQ_API_KEY, graph_built, initial_state, user_input,
                   called, ret>>
    /\ UNCHANGED scraper_vars

\* lines 135, 155: the search node; what it raises leaves stream() and is caught
\* by the except clause of the loop (lines 207-209)
RunSearch ==
    /\ pc = "stream"
    /\ node = "contract_search"
    /\ \E outcome \in SessionOutcomes :
          LET r == search_contracts(gstate, outcome)
          IN  /\ search_response' = outcome
              /\ queries' = Append(queries, search_query(gstate))
              /\ IF r.exc # NoException
                 THEN /\ raised' = r.exc
                      /\ printed' = (printed \o r.printed)
                                    \o <<"An error occurred: " \o r.exc.msg>>
                      /\ pc' = "terminated"
                      /\ UNCHANGED <<gstate, event, node>>
                 ELSE /\ gstate' = [gstate EXCEPT
                                       !.messages = add_messages(@, r.update.messages)]
                      /\ event' = [key |-> "contract_search", value |-> r.update]
                      /\ printed' = printed \o r.printed
                      /\ node' = "END"
                      /\ pc' = "event"
                      /\ UNCHANGED raised
    /\ UNCHANGED <<TAVILY_API_KEY, GROQ_API_KEY, graph_built, initial_state, user_input,
                   called, ret>>
    /\ UNCHANGED scraper_vars

\* mutant: the industry check does not test whether the field is set
ExtractDetails_overwrite(state, line) ==
    LET s1 == IF Contains(Lower(line), "industry")
              THEN [state EXCEPT !.industry = PyStr(Strip(Last(Split(line, "industry"))))]
              ELSE state
        s2 == IF ~Truthy(s1.contract_type) /\ Contains(Lower(line), "contract type")
              THEN [s1 EXCEPT !.contract_type =
                                  PyStr(Strip(Last(Split(line, "contract type"))))]
              ELSE s1
        s3 == IF /\ ~Truthy(s2.location)
                 /\ \E loc \in {"in", "location"} : Contains(Lower(line), loc)
              THEN [s2 EXCEPT !.location = PyStr(Strip(Last(Split(line, "location"))))]
              ELSE s2
        s4 == IF ~Truthy(s3.budget_range) /\ Contains(Lower(line), "budget")
              THEN [s3 EXCEPT !.budget_range = PyStr(Strip(Last(Split(line, "budget"))))]
              ELSE s3
    IN  s4

\* mutant: the budget range is cleared when the input does not name it
ExtractDetails_clear(state, line) ==
    LET s1 == IF ~Truthy(state.industry) /\ Contains(Lower(line), "industry")
              THEN [state EXCEPT !.industry = PyStr(Strip(Last(Split(line, "industry"))))]
              ELSE state
        s2 == IF ~Truthy(s1.contract_type) /\ Contains(Lower(line), "contract type")
              THEN [s1 EXCEPT !.contract_type =
                                  PyStr(Strip(Last(Split(line, "contract type"))))]
              ELSE s1
        s3 == IF /\ ~Truthy(s2.location)
                 /\ \E loc \in {"in", "location"} : Contains(Lower(line), loc)
              THEN [s2 EXCEPT !.location = PyStr(Strip(Last(Split(line, "location"))))]
              ELSE s2
        s4 == IF Contains(Lower(line), "budget")
              THEN IF ~Truthy(s3.budget_range)
                   THEN [s3 EXCEPT !.budget_range = PyStr(Strip(Last(Split(line, "budget"))))]
                   ELSE s3
              ELSE [s3 EXCEPT !.budget_range = None]
    IN  s4

\* lines 198-205: the four keyword checks against the raw input
ExtractDetails(state, line) ==
    LET s1 == IF ~Truthy(state.industry) /\ Contains(Lower(line), "industry")
              THEN [state EXCEPT !.industry = PyStr(Strip(Last(Split(line, "industry"))))]
              ELSE state
        s2 == IF ~Truthy(s1.contract_type) /\ Contains(Lower(line), "contract type")
              THEN [s1 EXCEPT !.contract_type =
                                  PyStr(Strip(Last(Split(line, "contract type"))))]
              ELSE s1
        s3 == IF /\ ~Truthy(s2.location)
                 /\ \E loc \in {"in", "location"} : Contains(Lower(line), loc)
              THEN [s2 EXCEPT !.location = PyStr(Strip(Last(Split(line, "location"))))]
              ELSE s2
        s4 == IF ~Truthy(s3.budget_range) /\ Contains(Lower(line), "budget")
              THEN [s3 EXCEPT !.budget_range = PyStr(Strip(Last(Split(line, "budget"))))]
              ELSE s3
    IN  s4

\* mutant: the keyword checks run once, after the last event of the pass
HandleEvent_after_pass ==
    /\ pc = "event"
    /\ LET last_message == Last(event.value.messages)
       IN  printed' = IF last_message.type = "AIMessage"
                      THEN Append(printed, "\nAssistant: " \o last_message.content)
                      ELSE printed
    /\ initial_state' = IF node = "END" THEN ExtractDetails(initial_state, user_input)
                        ELSE initial_state
    /\ event' = NoEvent
    /\ pc' = IF node = "END" THEN "input" ELSE "stream"
    /\ UNCHANGED <<TAVILY_API_KEY, GROQ_API_KEY, graph_built, user_input, gstate, node,
                   search_response, queries, raised, called, ret>>
    /\ UNCHANGED scraper_vars

\* mutant: the loop keeps the messages of each event in its own state
HandleEvent_keep ==
    /\ pc = "event"
    /\ LET last_message == Last(event.value.messages)
       IN  printed' = IF last_message.type = "AIMessage"
                      THEN Append(printed, "\nAssistant: " \o last_message.content)
                      ELSE printed
    /\ initial_state' = ExtractDetails(
                            [initial_state EXCEPT !.messages = @ \o event.value.messages],
                            user_input)
    /\ event' = NoEvent
    /\ pc' = IF node = "END" THEN "input" ELSE "stream"
    /\ UNCHANGED <<TAVILY_API_KEY, GROQ_API_KEY, graph_built, user_input, gstate, node,
                   search_response, queries, raised, called, ret>>
    /\ UNCHANGED scraper_vars

\* lines 189-205: the loop body for one event; after the last event of the pass
\* the generator is exhausted and the loop returns to input()
HandleEvent ==
    /\ pc = "event"
    /\ LET last_message == Last(event.value.messages)
       IN  printed' = IF last_message.type = "AIMessage"
                      THEN Append(printed, "\nAssistant: " \o last_message.content)
                      ELSE printed
    /\ initial_state' = ExtractDetails(initial_state, user_input)
    /\ event' = NoEvent
    /\ pc' = IF node = "END" THEN "input" ELSE "stream"
    /\ UNCHANGED <<TAVILY_API_KEY, GROQ_API_KEY, graph_built, user_input, gstate, node,
                   search_response, queries, raised, called, ret>>
    /\ UNCHANGED scraper_vars

Next ==
    \/ CheckCredentials
    \/ BuildGraph
    \/ StartLoop
    \/ \E line \in ExitInputs \cup TurnInputs : Quit(line)
    \/ InputFails
    \/ \E line \in ExitInputs \cup TurnInputs : Turn(line)
    \/ RunGather
    \/ RunSearch
    \/ HandleEvent

Spec == Init /\ [][Next]_vars

----------------------------------------------------------------------------
(* Direct calls of the node functions on one ContractState *)

\* fifty characters
Block50 == "xxxxxxxxxxxxxxxxxxxxxxxxxxxxxxxxxxxxxxxxxxxxxxxxxx"

Snippet200 == Block50 \o Block50 \o Block50 \o Block50

Snippet199 == SubSeq(Snippet200, 1, 199)

Snippet201 == Snippet200 \o "y"

TitleValues == {PyStr("Job A"), PyInt(7)}

UrlValues == {PyStr("http://a")}

ContentValues == {PyStr("Build a site"), PyStr(Snippet201), None}

\* raw results with every subset of the keys present
RawResults ==
    {RawResult(subset, t, u, c) :
        subset \in SUBSET ResultKeys, t \in TitleValues, u \in UrlValues, c \in ContentValues}

\* five well-formed results, contents shorter than, equal to and longer than the slice
FiveResults ==
    <<GoodResult,
      RawResult({"title", "content"}, PyStr("Job B"), None, PyStr(Snippet200)),
      RawResult({"url", "content"}, None, PyStr("http://c"), PyStr(Snippet201)),
      RawResult({"title", "url"}, PyStr("Job D"), PyStr("http://d"), None),
      RawResult(ResultKeys, PyStr("Job E"), PyStr("http://e"), PyStr(Snippet199))>>

CallOutcomes ==
    SessionOutcomes
    \cup {Returned(PyList(<<>>))}
    \cup {Returned(PyList(<<r>>)) : r \in RawResults}
    \cup {Returned(PyList(<<GoodResult, r>>)) : r \in RawResults}
    \cup {Returned(PyList(SubSeq(FiveResults, 1, n))) : n \in 0..5}
    \cup {Returned(None), Returned(PyInt(3)), Returned(PyStr("")),
          Returned(PyList(<<GoodResult, PyStr("x")>>)),
          Returned(PyList(<<None>>))}

MessageLists ==
    {<<>>, <<HumanMessage("hello")>>, <<AIMessage(Acknowledgment)>>,
     <<HumanMessage("hello"), AIMessage(ClarificationPrompt)>>,
     <<AIMessage(ClarificationPrompt), HumanMessage("industry IT")>>}

CallStates ==
    [messages      : MessageLists,
     industry      : {None, PyStr(""), PyStr("IT")},
     contract_type : {None, PyStr(""), PyStr("Full-time")},
     location      : {None, PyStr(""), PyStr("Austin")},
     budget_range  : {None, PyStr(""), PyStr("5k")}]

\* states on which the search node is called directly
SearchCallStates ==
    {st \in CallStates : st.messages = <<HumanMessage("hello"), AIMessage(ClarificationPrompt)>>}

InitCall ==
    /\ pc = "call"
    /\ TAVILY_API_KEY = PyStr("key")
    /\ GROQ_API_KEY = PyStr("key")
    /\ graph_built = TRUE
    /\ initial_state = NoState
    /\ user_input = ""
    /\ \/ gstate \in CallStates /\ search_response = Returned(PyList(<<>>))
       \/ gstate \in SearchCallStates /\ search_response \in CallOutcomes
    /\ node = ""
    /\ event = NoEvent
    /\ queries = <<>>
    /\ printed = <<>>
    /\ raised = NoException
    /\ called = ""
    /\ ret = None
    /\ response = NoResponse
    /\ scraped_file = None
    /\ fetches = 0
    /\ writes = 0

CallGather ==
    /\ pc = "call"
    /\ called' = "gather_contract_details"
    /\ ret' = gather_contract_details(gstate)
    /\ pc' = "return"
    /\ UNCHANGED <<TAVILY_API_KEY, GROQ_API_KEY, graph_built, initial_state, user_input,
                   gstate, node, event, search_response, queries, printed, raised>>
    /\ UNCHANGED scraper_vars

CallRoute ==
    /\ pc = "call"
    /\ called' = "route_to_search"
    /\ ret' = route_to_search(gstate)
    /\ pc' = "return"
    /\ UNCHANGED <<TAVILY_API_KEY, GROQ_API_KEY, graph_built, initial_state, user_input,
                   gstate, node, event, search_response, queries, printed, raised>>
    /\ UNCHANGED scraper_vars

CallSafeSearch ==
    /\ pc = "call"
    /\ called' = "safe_search_contracts"
    /\ LET r == safe_search_contracts(gstate, search_response)
       IN  ret' = r.results /\ printed' = printed \o r.printed
    /\ queries' = Append(queries, search_query(gstate))
    /\ pc' = "return"
    /\ UNCHANGED <<TAVILY_API_KEY, GROQ_API_KEY, graph_built, initial_state, user_input,
                   gstate, node, event, search_response, raised>>
    /\ UNCHANGED scraper_vars

CallSearch ==
    /\ pc = "call"
    /\ called' = "search_contracts"
    /\ LET r == search_contracts(gstate, search_response)
       IN  ret' = r.update /\ raised' = r.exc /\ printed' = printed \o r.printed
    /\ queries' = Append(queries, search_query(gstate))
    /\ pc' = "return"
    /\ UNCHANGED <<TAVILY_API_KEY, GROQ_API_KEY, graph_built, initial_state, user_input,
                   gstate, node, event, search_response>>
    /\ UNCHANGED scraper_vars

NextCall == CallGather \/ CallRoute \/ CallSafeSearch \/ CallSearch

SpecCall == InitCall /\ [][NextCall]_vars

----------------------------------------------------------------------------
(* The scraper script s.py: one fetch, then parse and write, or a notice *)

RECURSIVE StripTags(_, _)
\* the text nodes of the markup, in order: what lies between "<" and ">" is dropped
StripTags(html, inTag) ==
    IF html = "" THEN ""
    ELSE LET c == CharAt(html, 1)
         IN  IF c = "<" THEN StripTags(Tail(html), TRUE)
             ELSE IF c = ">" /\ inTag THEN StripTags(Tail(html), FALSE)
             ELSE IF inTag THEN StripTags(Tail(html), TRUE)
             ELSE c \o StripTags(Tail(html), FALSE)

\* BeautifulSoup(content, 'html.parser').get_text()
get_text(html) == StripTags(html, FALSE)

SavedNotice == "Content has been saved to \"scraped_content.txt\"."

FailedNotice == "Failed to retrieve the webpage"

\* final status codes of the fetch
StatusCodes == {200, 201, 204, 403, 404, 500, 503}

\* response bodies
Bodies == {"", "plain", "<p>Hello</p>", "<h1>Top 20</h1><p>Bids</p>", "<html><body>x</body></html>"}

\* scraped_content.txt before the run: missing, empty, or left by an earlier run
FilesBefore == {None, PyStr(""), PyStr("old text")}

InitScrape ==
    /\ pc = "fetch"
    /\ TAVILY_API_KEY = None
    /\ GROQ_API_KEY = None
    /\ graph_built = FALSE
    /\ initial_state = NoState
    /\ user_input = ""
    /\ gstate = NoState
    /\ node = ""
    /\ event = NoEvent
    /\ search_response = Returned(None)
    /\ queries = <<>>
    /\ printed = <<>>
    /\ raised = NoException
    /\ called = ""
    /\ ret = None
    /\ response = NoResponse
    /\ scraped_file \in FilesBefore
    /\ fetches = 0
    /\ writes = 0

app_vars == <<TAVILY_API_KEY, GROQ_API_KEY, graph_built, initial_state, user_input,
              gstate, node, event, search_response, queries, called, ret>>

\* line 6: requests.get(url) returns a response
Fetch ==
    /\ pc = "fetch"
    /\ fetches' = fetches + 1
    /\ \E code \in StatusCodes, body \in Bodies :
          response' = [status_code |-> code, content |-> body]
    /\ pc' = "fetched"
    /\ UNCHANGED <<scraped_file, writes, printed, raised>>
    /\ UNCHANGED app_vars

\* line 6: requests.get(url) raises; the script ends with the traceback
FetchFails ==
    /\ pc = "fetch"
    /\ fetches' = fetches + 1
    /\ raised' = Exception("ConnectionError", "connection failed")
    /\ pc' = "crashed"
    /\ UNCHANGED <<response, scraped_file, writes, printed>>
    /\ UNCHANGED app_vars

\* mutant: every 2xx status counts as success
HandleResponse_any_2xx ==
    /\ pc = "fetched"
    /\ IF response.status_code >= 200 /\ response.status_code < 300
       THEN /\ scraped_file' = PyStr(get_text(response.content))
            /\ writes' = writes + 1
            /\ printed' = Append(printed, SavedNotice)
       ELSE /\ printed' = Append(printed, FailedNotice)
            /\ UNCHANGED <<scraped_file, writes>>
    /\ pc' = "done"
    /\ UNCHANGED <<response, fetches, raised>>
    /\ UNCHANGED app_vars

\* lines 9-21: on 200 the text is written over the file, otherwise a notice is printed
HandleResponse ==
    /\ pc = "fetched"
    /\ IF response.status_code = 200
       THEN /\ scraped_file' = PyStr(get_text(response.content))
            /\ writes' = writes + 1
            /\ printed' = Append(printed, SavedNotice)
       ELSE /\ printed' = Append(printed, FailedNotice)
            /\ UNCHANGED <<scraped_file, writes>>
    /\ pc' = "done"
    /\ UNCHANGED <<response, fetches, raised>>
    /\ UNCHANGED app_vars

NextScrape == Fetch \/ FetchFails \/ HandleResponse

SpecScrape == InitScrape /\ [][NextScrape]_vars

----------------------------------------------------------------------------
(* Properties *)

\* a field holds no value: None, or the empty string
Unset(v) == v = None \/ v = PyStr("")

RequiredUnset(state) ==
    Unset(state.industry) \/ Unset(state.contract_type) \/ Unset(state.location)

\* C1: route_to_search returns "input_gathering" exactly when the message list
\* is non-empty, its last message is a HumanMessage and at least one of
\* industry, contract_type, location holds no value; in every other case,
\* whatever budget_range is, it returns "contract_search".
C1_RouteIff ==
    (pc = "return" /\ called = "route_to_search") =>
        /\ ret \in {"input_gathering", "contract_search"}
        /\ ret = "input_gathering" <=>
              /\ Len(gstate.messages) > 0
              /\ gstate.messages[Len(gstate.messages)].type = "HumanMessage"
              /\ RequiredUnset(gstate)

C1_Witness ==
    /\ pc = "return" /\ called = "route_to_search" /\ ret = "input_gathering"
    /\ gstate.industry = PyStr("IT") /\ gstate.location = None
    /\ gstate.budget_range = PyStr("5k")

FourPrompts ==
    <<"1. What industry are you looking for contracts in?",
      "2. What type of contract are you seeking?",
      "3. In which location are you looking for contracts?",
      "4. Do you have a specific budget range in mind?">>

\* C2: gather_contract_details returns exactly one assistant message: the
\* clarification text, with all four prompts, when at least one of industry,
\* contract_type, location holds no value, and the acknowledgment text when all
\* three hold one; budget_range has no influence.
C2_GatherMessage ==
    (pc = "return" /\ called = "gather_contract_details") =>
        /\ Len(ret.messages) = 1
        /\ ret.messages[1].type = "AIMessage"
        /\ IF RequiredUnset(gstate)
           THEN /\ ret.messages[1].content = ClarificationPrompt
                /\ \A i \in 1..4 : Contains(ret.messages[1].content, FourPrompts[i])
           ELSE ret.messages[1].content = Acknowledgment

C2_Witness ==
    /\ pc = "return" /\ called = "gather_contract_details"
    /\ gstate.industry = PyStr("IT") /\ gstate.contract_type = PyStr("Full-time")
    /\ gstate.location = None /\ gstate.budget_range = PyStr("5k")
    /\ ret.messages[1].content = ClarificationPrompt

\* the response is not a list of records, or a record holds a value that is not a str
Malformed(value) ==
    \/ value.type # "list"
    \/ \E i \in 1..Len(value.v) :
          \/ value.v[i].type # "dict"
          \/ \E k \in DOMAIN value.v[i].v : value.v[i].v[k].type # "str"

SearchFailed(outcome) == outcome.exc # NoException \/ Malformed(outcome.value)

\* C3: whenever the search call raises or returns a malformed response, the
\* Search Step still returns the apology message and the session stays Running.
C3_SearchFailureSwallowed ==
    (/\ SearchFailed(search_response)
     /\ \/ pc = "event" /\ node = "END"
        \/ pc = "terminated" /\ raised.type = "TypeError") =>
        /\ pc = "event"
        /\ raised = NoException
        /\ event.value.messages = <<AIMessage(Apology)>>

\* the normalized list holds records whose three values are all strings
Normalized(results) ==
    \A i \in 1..Len(results) :
        \A k \in ResultKeys : results[i][k].type = "str"

C4_Entry(i, r) ==
    NatToStr(i) \o ". " \o r.title.v \o "\n   URL: " \o r.url.v \o "\n   Description: "
    \o (IF Len(r.content.v) > 200 THEN SubSeq(r.content.v, 1, 200) ELSE r.content.v)
    \o "..."

RECURSIVE C4_Entries(_, _)
C4_Entries(results, n) ==
    IF n = 0 THEN ""
    ELSE IF n = 1 THEN C4_Entry(1, results[1])
    ELSE C4_Entries(results, n - 1) \o "\n\n" \o C4_Entry(n, results[n])

\* C4: search_contracts returns exactly one assistant message: the apology when
\* the normalized result list is empty, and otherwise, for N results of string
\* values, the entries 1..N in the order returned, each with title, URL and the
\* first 200 characters of the content followed by "...", also when the content
\* is shorter than 200 characters.
C4_SearchMessage ==
    (pc = "return" /\ called = "search_contracts") =>
        LET results == safe_search_contracts(gstate, search_response).results
        IN  Normalized(results) =>
              /\ raised = NoException
              /\ Len(ret.messages) = 1
              /\ ret.messages[1].type = "AIMessage"
              /\ ret.messages[1].content =
                    IF Len(results) = 0 THEN Apology
                    ELSE FoundHeader \o C4_Entries(results, Len(results))

C4_Witness ==
    /\ pc = "return" /\ called = "search_contracts"
    /\ search_response.exc = NoException
    /\ search_response.value.type = "list"
    /\ Len(search_response.value.v) = 5
    /\ Contains(ret.messages[1].content, "5. Job E\n   URL: http://e\n   Description: "
                                         \o Snippet199 \o "...")
    /\ Contains(ret.messages[1].content, "1. Job A\n   URL: http://a\n   Description: "
                                         \o "Build a site...\n\n2. Job B")

\* the query the template yields with "" for an unset contract_type, industry or
\* location and "any" for an unset budget_range
C5_Expected(state) ==
    "Latest " \o (IF state.contract_type = None THEN "" ELSE state.contract_type.v)
    \o " contract opportunities in " \o (IF state.industry = None THEN "" ELSE state.industry.v)
    \o " industry located in " \o (IF state.location = None THEN "" ELSE state.location.v)
    \o " with budget range "
    \o (IF state.budget_range = None THEN "any" ELSE state.budget_range.v)

\* C5: the query issued by the Search Step of a session is the template with
\* each set field inserted, "" for an unset contract_type, industry or location
\* and "any" for an unset budget_range.
C5_QueryDefaults ==
    (pc = "event" /\ node = "END") =>
        queries[Len(queries)] = C5_Expected(gstate)

C6_Default(k) ==
    CASE k = "title"   -> PyStr("Untitled Contract Opportunity")
      [] k = "url"     -> PyStr("No URL available")
      [] k = "content" -> PyStr("No description available")

\* C6: for a response that is a list of records, the normalized list has the
\* same length and order, and each record takes, key by key, the raw value of a
\* present key and the default of an absent key.
C6_Normalization ==
    (/\ pc = "return" /\ called = "safe_search_contracts"
     /\ search_response.exc = NoException
     /\ search_response.value.type = "list"
     /\ \A i \in 1..Len(search_response.value.v) : search_response.value.v[i].type = "dict") =>
        LET raw == search_response.value.v
        IN  /\ Len(ret) = Len(raw)
            /\ \A i \in 1..Len(raw) :
                  \A k \in ResultKeys :
                      ret[i][k] = IF k \in DOMAIN raw[i].v THEN raw[i].v[k] ELSE C6_Default(k)

C6_Witness ==
    /\ pc = "return" /\ called = "safe_search_contracts"
    /\ search_response.exc = NoException
    /\ search_response.value.type = "list"
    /\ Len(search_response.value.v) = 2
    /\ search_response.value.v[2].type = "dict"
    /\ DOMAIN search_response.value.v[2].v = {"url"}
    /\ Len(ret) = 2
    /\ ret[1].title = PyStr("Job A")
    /\ ret[2].title = PyStr("Untitled Contract Opportunity")
    /\ ret[2].url = PyStr("http://a")

RunningPcs == {"input", "stream", "event"}

ExitWords == {"quit", "exit", "q"}

\* C7: from Running, an input equal to "quit", "exit" or "q" ignoring case moves
\* the loop to Terminated in that step: the farewell is printed, no message is
\* appended, no node runs, no query is issued, no field changes; and no step is
\* ever taken from Terminated.
C7_QuitTerminates ==
    [][/\ pc # "terminated"
       /\ (pc = "input" /\ raised' = NoException /\ Lower(user_input') \in ExitWords) =>
             /\ pc' = "terminated"
             /\ printed' = Append(printed, Farewell)
             /\ initial_state' = initial_state
             /\ gstate' = gstate
             /\ queries' = queries
             /\ event' = event]_vars

C7_Witness ==
    /\ pc = "terminated" /\ user_input = "QUIT" /\ raised = NoException
    /\ Len(initial_state.messages) = 1
    /\ printed[Len(printed)] = Farewell

FieldNames == {"industry", "contract_type", "location", "budget_range"}

\* C8 as stated: a field that holds a value, the empty string included, keeps it
\* in every later step.
C8_SetFieldKept ==
    [][\A f \in FieldNames :
          initial_state[f] # None => initial_state'[f] = initial_state[f]]_vars

\* C8 amended: a field that holds a non-empty value keeps it in every later
\* step, whatever the later inputs are.
C8_NonEmptyFieldKept ==
    [][\A f \in FieldNames :
          (initial_state[f] # None /\ initial_state[f] # PyStr("")) =>
              initial_state'[f] = initial_state[f]]_vars

C8_Witness ==
    /\ pc = "input"
    /\ Len(initial_state.messages) = 2
    /\ initial_state.messages[1].content = "industry IT"
    /\ initial_state.messages[2].content = "INDUSTRY tech budget 5k"
    /\ initial_state.industry = PyStr("IT")

\* C9: an exception that reaches the except clause of the loop, raised while
\* reading input or during the flow pass, prints an error line and moves the
\* loop to Terminated, from which no later turn is processed.
C9_LoopErrorTerminates ==
    [][/\ pc # "terminated"
       /\ (pc \in RunningPcs /\ raised' # NoException) =>
             /\ pc' = "terminated"
             /\ Len(printed') > Len(printed)
             /\ printed'[Len(printed')] = "An error occurred: " \o raised'.msg
             /\ initial_state'.messages = initial_state.messages]_vars

C9_Witness ==
    /\ pc = "terminated" /\ raised.type = "TypeError"
    /\ Len(initial_state.messages) = 1
    /\ printed[Len(printed)] = "An error occurred: 'NoneType' object is not subscriptable"

Absent(v) == v = None \/ v = PyStr("")

\* C10: with TAVILY_API_KEY or GROQ_API_KEY absent or empty the process aborts
\* with an error naming the missing setting, before the graph is built and
\* before anything is read or printed; the loop is reached only with both present.
C10_CredentialCheck ==
    /\ (pc # "import" /\ (Absent(TAVILY_API_KEY) \/ Absent(GROQ_API_KEY))) =>
          /\ pc = "aborted"
          /\ raised.type = "ValueError"
          /\ Contains(raised.msg,
                      IF Absent(TAVILY_API_KEY) THEN "TAVILY_API_KEY" ELSE "GROQ_API_KEY")
          /\ ~graph_built
          /\ user_input = "" /\ printed = <<>> /\ queries = <<>>
    /\ (pc \in RunningPcs \cup {"main", "terminated"}) =>
          /\ ~Absent(TAVILY_API_KEY) /\ ~Absent(GROQ_API_KEY)
          /\ graph_built

C10_Witness ==
    /\ pc = "aborted"
    /\ TAVILY_API_KEY = PyStr("key") /\ GROQ_API_KEY = PyStr("")
    /\ raised = Exception("ValueError", "GROQ_API_KEY is not set in the .env file")

\* C11: the scraper fetches once; scraped_content.txt is written exactly when
\* the status of that fetch is 200, and then holds the page text in place of what
\* it held; on every other status the failure notice is printed and the file is
\* neither created nor modified.
C11_WriteIff200 ==
    /\ [](pc = "done" =>
            /\ fetches = 1
            /\ writes = (IF response.status_code = 200 THEN 1 ELSE 0)
            /\ response.status_code = 200 =>
                  /\ scraped_file.type = "str"
                  /\ ~Contains(scraped_file.v, "<") /\ ~Contains(scraped_file.v, ">")
                  /\ (response.content = "<h1>Top 20</h1><p>Bids</p>" =>
                         scraped_file.v = "Top 20Bids")
                  /\ (response.content = "plain" => scraped_file.v = "plain")
            /\ response.status_code # 200 => printed = <<FailedNotice>>)
    /\ [][/\ fetches' # fetches => (fetches = 0 /\ pc = "fetch")
          /\ (scraped_file' # scraped_file \/ writes' # writes) =>
                (pc = "fetched" /\ response.status_code = 200)]_vars

C11_Witness ==
    /\ pc = "done" /\ response.status_code = 200
    /\ response.content = "<h1>Top 20</h1><p>Bids</p>"
    /\ scraped_file = PyStr("Top 20Bids") /\ writes = 1 /\ fetches = 1

\* C12: in a flow pass that begins with a user message last and a required field
\* unset, the routing decision after the gathering step selects gathering, and
\* no search query is issued in that pass.
C12_FieldsGateSearch ==
    /\ [](/\ pc = "event" /\ event.key = "input_gathering"
          /\ initial_state.messages[Len(initial_state.messages)].type = "HumanMessage"
          /\ RequiredUnset(gstate)
          => node = "input_gathering")
    /\ [][queries' # queries => ~RequiredUnset(gstate)]_vars

\* index of the last occurrence of sub in s, 0 when there is none
C13_FindLast(s, sub) ==
    LET hits == {i \in 1..(Len(s) - Len(sub) + 1) : SubSeq(s, i, i + Len(sub) - 1) = sub}
    IN  IF hits = {} THEN 0 ELSE CHOOSE i \in hits : \A j \in hits : j <= i

\* the raw input after the last occurrence of the keyword, matched ignoring case
C13_After(line, keyword) ==
    LET p == C13_FindLast(Lower(line), keyword)
    IN  Strip(SubSeq(line, p + Len(keyword), Len(line)))

\* the keyword that triggers a field in this input, "" when none does
C13_Keyword(f, line) ==
    LET low == Lower(line)
        has(k) == C13_FindLast(low, k) # 0
    IN  CASE f = "industry"      -> IF has("industry") THEN "industry" ELSE ""
          [] f = "contract_type" -> IF has("contract type") THEN "contract type" ELSE ""
          [] f = "budget_range"  -> IF has("budget") THEN "budget" ELSE ""
          [] f = "location"      -> IF has("location") THEN "location"
                                    ELSE IF has("in") THEN "in" ELSE ""

\* C13: when the loop body handles an event, every unset field whose keyword
\* occurs in the lowercased input becomes the trimmed text of the raw input
\* after the last occurrence of that keyword, also for an upper-case keyword
\* and for a location triggered by "in" alone.
C13_ExtractAfterKeyword ==
    [][\A f \in FieldNames :
          (pc = "event" /\ Unset(initial_state[f]) /\ C13_Keyword(f, user_input) # "") =>
              initial_state'[f] = PyStr(C13_After(user_input, C13_Keyword(f, user_input)))]_vars

Fields(state) == [f \in FieldNames |-> state[f]]

\* C14 as stated: the fields of the Dialogue State kept by the loop change only
\* when the flow pass has finished, in the step that handles its last event.
C14_ExtractAfterPass ==
    [][Fields(initial_state') # Fields(initial_state) => (pc = "event" /\ node = "END")]_vars

\* C14 amended: the user message is appended before the pass starts; the keyword
\* checks run in the loop body of every event, so a field named in the input is
\* already set when the search step starts; the fields of the state the nodes
\* read do not change during the pass.
C14_ExtractAfterEachEvent ==
    /\ [](/\ pc = "stream" /\ node = "contract_search"
          /\ Contains(Lower(user_input), "budget") /\ gstate.budget_range = None
          => initial_state.budget_range # None)
    /\ [][/\ Fields(initial_state') # Fields(initial_state) =>
                (pc = "event" /\ Len(printed') = Len(printed) + 1)
          /\ pc \in {"stream", "event"} =>
                (Fields(gstate') = Fields(gstate)
                 /\ initial_state'.messages = initial_state.messages)
          /\ (pc = "input" /\ pc' = "stream") =>
                (/\ initial_state'.messages =
                       Append(initial_state.messages, HumanMessage(user_input'))
                 /\ Fields(initial_state') = Fields(initial_state)
                 /\ node' = "input_gathering")]_vars

C14_Witness ==
    /\ pc = "stream" /\ node = "contract_search"
    /\ user_input = "INDUSTRY tech budget 5k"
    /\ gstate.budget_range = None
    /\ initial_state.budget_range = PyStr("5k")

IsPrefix(xs, ys) == Len(xs) <= Len(ys) /\ \A i \in 1..Len(xs) : ys[i] = xs[i]

\* C15: the message sequence kept by the loop only grows at its end: every step
\* leaves the earlier sequence as a prefix of the later one, a non-exit turn
\* appends exactly one user message carrying that turn's input, and no other
\* step changes the sequence.
C15_MessagesAppendOnly ==
    [][/\ IsPrefix(initial_state.messages, initial_state'.messages)
       /\ (pc = "input" /\ pc' = "stream") =>
             /\ Len(initial_state'.messages) = Len(initial_state.messages) + 1
             /\ initial_state'.messages[Len(initial_state'.messages)] =
                   [type |-> "HumanMessage", content |-> user_input']
       /\ ~(pc = "input" /\ pc' = "stream") =>
             initial_state'.messages = initial_state.messages]_vars

C15_Witness ==
    /\ pc = "input"
    /\ Len(initial_state.messages) = 2
    /\ initial_state.messages[1].content = "industry IT"
    /\ initial_state.messages[2].content = "hello"

\* C16: the gathering step, the routing decision and the search step, failed or
\* not, return messages only and leave the four fields unchanged, in the state
\* the nodes read and in the state the loop keeps; a field of the loop's state
\* changes only in the keyword-extraction step, from holding no value to a
\* string, and a field that holds a value is never changed or cleared.
C16_OnlyExtractionSetsFields ==
    /\ [](pc = "event" => DOMAIN event.value = {"messages"})
    /\ [][/\ pc = "stream" =>
                (Fields(initial_state') = Fields(initial_state)
                 /\ Fields(gstate') = Fields(gstate))
          /\ \A f \in FieldNames :
                /\ initial_state'[f] # initial_state[f] =>
                      /\ pc = "event"
                      /\ Unset(initial_state[f])
                      /\ initial_state'[f].type = "str"
                /\ ~Unset(initial_state[f]) => ~Unset(initial_state'[f])]_vars

C16_Witness ==
    /\ pc = "event" /\ node = "END"
    /\ search_response.exc # NoException
    /\ Len(initial_state.messages) = 2
    /\ initial_state.messages[1].content = "industry IT"
    /\ initial_state.industry = PyStr("IT") /\ gstate.industry = PyStr("IT")
    /\ initial_state.budget_range = None

\* C17: every flow pass terminates at END: it runs the gathering step once,
\* then the search step, and is left only when the flow has reached END.
C17_PassEndsAtEnd ==
    /\ [](pc = "event" /\ event.key = "input_gathering" => node = "contract_search")
    /\ [][(pc \in {"stream", "event"} /\ pc' \notin {"stream", "event"})
              => node = "END"]_vars
\* C18: a flow pass starts with the four fields the loop's state held when the
\* turn began and keeps them to its end; the gathering message and the query of
\* the pass are computed from those, whatever the keyword extraction has set in
\* the loop's state since, so a field set from this turn's input is first used
\* by the pass of the next turn.
C18_QueryFromPassStart ==
    /\ [](pc = "event" /\ event.key = "input_gathering" =>
             event.value.messages[1].content =
                 IF RequiredUnset(gstate) THEN ClarificationPrompt ELSE Acknowledgment)
    /\ [][/\ (pc = "input" /\ pc' = "stream") =>
                (Fields(gstate') = Fields(initial_state)
                 /\ Fields(initial_state') = Fields(initial_state))
          /\ pc \in {"stream", "event"} => Fields(gstate') = Fields(gstate)
          /\ queries' # queries =>
                (pc = "stream" /\ queries' = Append(queries, search_query(gstate)))]_vars

C18_Witness ==
    /\ pc = "event" /\ node = "END"
    /\ Len(queries) = 2
    /\ initial_state.messages[1].content = "industry IT"
    /\ ~Contains(queries[1], "IT")
    /\ Contains(queries[2], "in IT industry")

\* C19: the state the loop keeps holds user messages only, the last one carrying
\* the input of the turn while its pass runs; between turns it holds one message per completed pass; a
\* pass starts from exactly these messages, so with a user message last, and
\* the assistant messages are added to the graph's copy and printed, never to
\* the loop's state.
C19_LoopStateUserOnly ==
    /\ \A i \in 1..Len(initial_state.messages) :
          initial_state.messages[i].type = "HumanMessage"
    /\ pc \in {"stream", "event"} =>
          Last(initial_state.messages) = HumanMessage(user_input)
    /\ pc = "input" => Len(initial_state.messages) = Len(queries)
    /\ (pc = "stream" /\ node = "input_gathering") =>
          /\ gstate.messages = initial_state.messages
          /\ Last(gstate.messages).type = "HumanMessage"
    /\ (pc = "stream" /\ node = "contract_search") =>
          /\ Len(gstate.messages) = Len(initial_state.messages) + 1
          /\ Last(gstate.messages).type = "AIMessage"
          /\ Last(printed) = "\nAssistant: " \o Last(gstate.messages).content

C19_Witness ==
    /\ pc = "input"
    /\ Len(initial_state.messages) = 2
    /\ initial_state.messages[1] = HumanMessage("hello")
    /\ initial_state.messages[2] = HumanMessage("industry IT")
    /\ Len(printed) >= 4
    /\ Len(gstate.messages) = 4

====
